---- MODULE Spec2Model ----
(***************************************************************************)
(* Conway's Game of Life on a bounded grid (src/src/main.rs): the board,   *)
(* the neighbour count, the per-tick transition performed by               *)
(* GameState::update, and the keyboard / mouse handlers of GameState.      *)
(*                                                                         *)
(* Vec<T> is modelled as a function over the 0-based index range           *)
(* 0..len-1, so board[x][y] reads as in the source.  Time is the reading   *)
(* of the monotonic clock (Instant::now()) in milliseconds.                *)
(***************************************************************************)
EXTENDS Integers, FiniteSets, Sequences, TLC

(* ------------------------------ bounds --------------------------------- *)
\* GRID_SIZE.0 and GRID_SIZE.1 (100 x 100 in the source), scaled down.
GridW == 3
GridH == 3
\* The clock advances in steps of TimeQuantum ms and is observed up to MaxTime.
TimeQuantum == 25
MaxTime == 100
\* The largest cell_count GameState::new is given.
MaxCellCount == 2

(* ----------------------------- constants ------------------------------- *)
GRID_SIZE == <<GridW, GridH>>
CELL_PIXELS == 10
GRID_CELL_SIZE == <<CELL_PIXELS, CELL_PIXELS>>
UPDATES_PER_SECOND == 20
\* (1.0 / UPDATES_PER_SECOND * 1000.0) as u64
MILLIS_PER_UPDATE == 1000 \div UPDATES_PER_SECOND
I16_MAX == 32767
I16_MIN == -32768

Xs == 0 .. (GRID_SIZE[1] - 1)
Ys == 0 .. (GRID_SIZE[2] - 1)

(* ------------------------------- types --------------------------------- *)
\* GridPosition::new
GridPosition(x, y) == [x |-> x, y |-> y]

\* Cell::new
Cell(pos, dead) == [position |-> pos, dead |-> dead]

\* impl From<GridPosition> for graphics::Rect
Rect(pos) ==
    [x |-> pos.x * GRID_CELL_SIZE[1], y |-> pos.y * GRID_CELL_SIZE[2],
     w |-> GRID_CELL_SIZE[1], h |-> GRID_CELL_SIZE[2]]

(* --------------------------- numeric casts ----------------------------- *)
\* `v as i16` for an f32 v: truncation toward zero, saturating at the i16
\* range.  The argument is the float already truncated to an integer.
F32AsI16(v) == IF v > I16_MAX THEN I16_MAX ELSE IF v < I16_MIN THEN I16_MIN ELSE v

\* i16 / i16: Rust integer division truncates toward zero.
DivI16(a, b) == IF a >= 0 THEN a \div b ELSE -((-a) \div b)

\* vec[i as usize] for an i16 i: a negative i wraps to a value far above any
\* Vec length, so the index is in bounds iff 0 <= i < len.
InBounds(i, len) == i >= 0 /\ i < len

(* ------------------------------- board --------------------------------- *)
\* generate_board flipping the cell at each draw (`dead = !dead`), so that a
\* position drawn twice ends up dead again.
generate_board_flip(random_positions) ==
    [x \in Xs |-> [y \in Ys |->
        Cell(GridPosition(x, y),
             Cardinality({i \in 1 .. Len(random_positions) :
                            random_positions[i] = GridPosition(x, y)}) % 2 = 0)]]

\* GameState::generate_board with the random draws given as a sequence of
\* positions (one entry per iteration of the cell_count loop).
generate_board(random_positions) ==
    [x \in Xs |-> [y \in Ys |->
        Cell(GridPosition(x, y),
             ~(\E i \in 1 .. Len(random_positions) :
                   random_positions[i] = GridPosition(x, y)))]]

\* Live without the negation: the probe counts dead cells.
LiveInverted(board, x, y) == IF board[x][y].dead THEN 1 ELSE 0

\* `if !board[x][y].dead { neighbors += 1; }`: what one probe adds.
Live(board, x, y) == IF ~board[x][y].dead THEN 1 ELSE 0

\* neighbor_count without the bottom-edge test of the bottom-right probe: at the
\* bottom row it reads the next column's top cell (a wrap) where that exists.
neighbor_count_wrap(board, cell) ==
    LET cell_x == cell.position.x
        cell_y == cell.position.y
        At(x, y) == IF y = GRID_SIZE[2]
                    THEN (IF x + 1 < GRID_SIZE[1] THEN Live(board, x + 1, 0) ELSE 0)
                    ELSE Live(board, x, y)
        left ==
            IF cell_x # 0
            THEN Live(board, cell_x - 1, cell_y)
                 + (IF cell_y # 0 THEN Live(board, cell_x - 1, cell_y - 1) ELSE 0)
                 + (IF cell_y # GRID_SIZE[2] - 1
                    THEN Live(board, cell_x - 1, cell_y + 1) ELSE 0)
            ELSE 0
        right ==
            IF cell_x # GRID_SIZE[1] - 1
            THEN Live(board, cell_x + 1, cell_y)
                 + (IF cell_y # 0 THEN Live(board, cell_x + 1, cell_y - 1) ELSE 0)
                 + At(cell_x + 1, cell_y + 1)
            ELSE 0
        top == IF cell_y # 0 THEN Live(board, cell_x, cell_y - 1) ELSE 0
        bottom == IF cell_y # GRID_SIZE[2] - 1 THEN Live(board, cell_x, cell_y + 1) ELSE 0
    IN left + right + top + bottom

\* GameState::neighbor_count, branch by branch.
neighbor_count(board, cell) ==
    LET cell_x == cell.position.x
        cell_y == cell.position.y
        left ==
            IF cell_x # 0
            THEN Live(board, cell_x - 1, cell_y)
                 + (IF cell_y # 0 THEN Live(board, cell_x - 1, cell_y - 1) ELSE 0)
                 + (IF cell_y # GRID_SIZE[2] - 1
                    THEN Live(board, cell_x - 1, cell_y + 1) ELSE 0)
            ELSE 0
        right ==
            IF cell_x # GRID_SIZE[1] - 1
            THEN Live(board, cell_x + 1, cell_y)
                 + (IF cell_y # 0 THEN Live(board, cell_x + 1, cell_y - 1) ELSE 0)
                 + (IF cell_y # GRID_SIZE[2] - 1
                    THEN Live(board, cell_x + 1, cell_y + 1) ELSE 0)
            ELSE 0
        top == IF cell_y # 0 THEN Live(board, cell_x, cell_y - 1) ELSE 0
        bottom == IF cell_y # GRID_SIZE[2] - 1 THEN Live(board, cell_x, cell_y + 1) ELSE 0
    IN left + right + top + bottom

\* NextDead with a birth on 2 or 3 neighbours.
NextDeadBirthOnTwo(cell, neighbors) ==
    IF cell.dead
    THEN (IF neighbors = 3 \/ neighbors = 2 THEN FALSE ELSE cell.dead)
    ELSE (IF neighbors = 0 \/ neighbors = 1 \/ neighbors >= 4 THEN TRUE ELSE cell.dead)

\* NextDead with overcrowding starting at 5 neighbours instead of 4.
NextDeadOvercrowdAtFive(cell, neighbors) ==
    IF cell.dead
    THEN (IF neighbors = 3 THEN FALSE ELSE cell.dead)
    ELSE (IF neighbors = 0 \/ neighbors = 1 \/ neighbors > 4 THEN TRUE ELSE cell.dead)

\* NextDead with survival on 3 neighbours only (a live cell with 2 dies).
NextDeadSurviveOnThree(cell, neighbors) ==
    IF cell.dead
    THEN (IF neighbors = 3 THEN FALSE ELSE cell.dead)
    ELSE (IF neighbors # 3 THEN TRUE ELSE cell.dead)

\* The dead flag the scan of update stores for one cell, given its neighbours.
NextDead(cell, neighbors) ==
    IF cell.dead
    THEN (IF neighbors = 3 THEN FALSE ELSE cell.dead)
    ELSE (IF neighbors = 0 \/ neighbors = 1 \/ neighbors >= 4 THEN TRUE ELSE cell.dead)

\* ScanSource reading the board being written instead of the copy.
ScanSourceInPlace(cur, board_copy) == cur

\* The snapshot the scan counts neighbours in: board_copy = self.board.to_vec().
ScanSource(cur, board_copy) == board_copy

\* The body of the `for x ... for y ...` scan of update for the k-th cell in
\* iteration order (x outer, y inner), applied in place to cur.
ScanCell(cur, board_copy, k) ==
    LET x == k \div GRID_SIZE[2]
        y == k % GRID_SIZE[2]
        cell == cur[x][y]
        neighbors == neighbor_count(ScanSource(cur, board_copy), cell)
    IN [cur EXCEPT ![x][y].dead = NextDead(cell, neighbors)]

RECURSIVE Scan(_, _, _)
\* The loops of update from the k-th cell on.
Scan(cur, board_copy, k) ==
    IF k >= GRID_SIZE[1] * GRID_SIZE[2]
    THEN cur
    ELSE Scan(ScanCell(cur, board_copy, k), board_copy, k + 1)

\* `if self.run { ... }` of update: one generation.
step(board) == Scan(board, board, 0)

\* clear with the outer loop one column short (0..GRID_SIZE.0 - 1).
clear_short(board) ==
    [x \in Xs |-> [y \in Ys |->
        IF x < GRID_SIZE[1] - 1 THEN [board[x][y] EXCEPT !.dead = TRUE] ELSE board[x][y]]]

\* `if self.reset_board { ... }` of update: every cell's dead flag set.
clear(board) == [x \in Xs |-> [y \in Ys |-> [board[x][y] EXCEPT !.dead = TRUE]]]

(* ------------------------------- state --------------------------------- *)
VARIABLES
    board,          \* GameState.board
    last_update,    \* GameState.last_update
    run,            \* GameState.run
    reset_board,    \* GameState.reset_board
    clock,          \* the reading Instant::now() returns
    panicked,       \* a handler panicked (index out of bounds): the program is gone
    event,          \* the event the loop dispatched last, with its inputs and output
    prev            \* the GameState fields as that event's handler found them

vars == <<board, last_update, run, reset_board, clock, panicked, event, prev>>

\* The fields of self on entry to a handler.
Snapshot ==
    [board |-> board, last_update |-> last_update, run |-> run, reset_board |-> reset_board]

Ev(kind, x, y, now, rects) == [kind |-> kind, x |-> x, y |-> y, now |-> now, rects |-> rects]

\* Durations a handler run may take on the clock.
Durations == {d \in {0, TimeQuantum} : clock + d <= MaxTime}

\* GameState::new(0), as main calls it.
Init ==
    /\ board = generate_board(<<>>)
    /\ last_update = 0
    /\ run = FALSE
    /\ reset_board = FALSE
    /\ clock = 0
    /\ panicked = FALSE
    /\ event = Ev("new", 0, 0, 0, {})
    /\ prev = [board |-> generate_board(<<>>), last_update |-> 0,
               run |-> FALSE, reset_board |-> FALSE]

\* Time passing between two events.
Elapse ==
    /\ ~panicked
    /\ clock + TimeQuantum <= MaxTime
    /\ clock' = clock + TimeQuantum
    /\ UNCHANGED <<board, last_update, run, reset_board, panicked, event, prev>>

\* GateOpen without the interval: any tick passes.
GateOpenAlways(now) == now - last_update >= 0

\* GateOpen with the interval taken in microseconds (Duration::from_micros).
GateOpenMicros(now) == (now - last_update) * 1000 >= MILLIS_PER_UPDATE

\* The gate of update.
GateOpen(now) == now - last_update >= MILLIS_PER_UPDATE

\* TickBoard with the reset skipped while the game runs (`else if`).
TickBoardRunFirst(b, reset, running) ==
    IF running THEN step(b) ELSE IF reset THEN clear(b) ELSE b

\* TickBoard without the test of self.run: every eligible tick steps.
TickBoardAlwaysRun(b, reset, running) ==
    LET b1 == IF reset THEN clear(b) ELSE b
    IN step(b1)

\* The board an update that passed the gate leaves: the reset block, then
\* the run block.
TickBoard(b, reset, running) ==
    LET b1 == IF reset THEN clear(b) ELSE b
    IN IF running THEN step(b1) ELSE b1

\* GameState::update
update ==
    /\ ~panicked
    /\ event' = Ev("update", 0, 0, clock, {})
    /\ prev' = Snapshot
    /\ IF GateOpen(clock)
       THEN \E d \in Durations :
                 /\ board' = TickBoard(board, reset_board, run)
                 /\ reset_board' = FALSE
                 /\ clock' = clock + d
                 /\ last_update' = clock + d
                 /\ UNCHANGED <<run, panicked>>
       ELSE UNCHANGED <<board, last_update, run, reset_board, clock, panicked>>

\* draw with the test of Cell::draw inverted: dead cells are painted.
draw_dead ==
    /\ ~panicked
    /\ event' = Ev("draw", 0, 0, clock,
                   {Rect(board[p[1]][p[2]].position) :
                        p \in {q \in Xs \X Ys : board[q[1]][q[2]].dead}})
    /\ prev' = Snapshot
    /\ UNCHANGED <<board, last_update, run, reset_board, clock, panicked>>

\* GameState::draw with Cell::draw: one rectangle per cell that is not dead.
draw ==
    /\ ~panicked
    /\ event' = Ev("draw", 0, 0, clock,
                   {Rect(board[p[1]][p[2]].position) :
                        p \in {q \in Xs \X Ys : ~board[q[1]][q[2]].dead}})
    /\ prev' = Snapshot
    /\ UNCHANGED <<board, last_update, run, reset_board, clock, panicked>>

\* Keys the loop may deliver: the two commands and one other key.
KeyCodes == {"Space", "Back", "A"}

\* key_down_event with Back clearing the board at once instead of staging.
key_down_event_eager(keycode) ==
    /\ ~panicked
    /\ event' = Ev(keycode, 0, 0, clock, {})
    /\ prev' = Snapshot
    /\ run' = IF keycode = "Space" THEN (IF run THEN FALSE ELSE TRUE) ELSE run
    /\ board' = IF keycode = "Back" THEN clear(board) ELSE board
    /\ UNCHANGED <<reset_board, last_update, clock, panicked>>

\* key_down_event whose Space arm only starts the game (never pauses it).
key_down_event_start(keycode) ==
    /\ ~panicked
    /\ event' = Ev(keycode, 0, 0, clock, {})
    /\ prev' = Snapshot
    /\ run' = IF keycode = "Space" THEN TRUE ELSE run
    /\ reset_board' = IF keycode = "Back" THEN TRUE ELSE reset_board
    /\ UNCHANGED <<board, last_update, clock, panicked>>

\* key_down_event whose catch-all arm also stages a reset (`Back | _`).
key_down_event_catchall(keycode) ==
    /\ ~panicked
    /\ event' = Ev(keycode, 0, 0, clock, {})
    /\ prev' = Snapshot
    /\ run' = IF keycode = "Space" THEN (IF run THEN FALSE ELSE TRUE) ELSE run
    /\ reset_board' = IF keycode # "Space" THEN TRUE ELSE reset_board
    /\ UNCHANGED <<board, last_update, clock, panicked>>

\* GameState::key_down_event
key_down_event(keycode) ==
    /\ ~panicked
    /\ event' = Ev(keycode, 0, 0, clock, {})
    /\ prev' = Snapshot
    /\ run' = IF keycode = "Space" THEN (IF run THEN FALSE ELSE TRUE) ELSE run
    /\ reset_board' = IF keycode = "Back" THEN TRUE ELSE reset_board
    /\ UNCHANGED <<board, last_update, clock, panicked>>

\* Pixel coordinates a click may carry (the f32 truncated to an integer):
\* left of / above the grid, inside it, at and beyond its far edge, and one
\* beyond the i16 range.
ClickXs == {-CELL_PIXELS, -(CELL_PIXELS \div 2), CELL_PIXELS \div 2, CELL_PIXELS + 5,
            GRID_SIZE[1] * CELL_PIXELS - 1, GRID_SIZE[1] * CELL_PIXELS, 40000}
ClickYs == {-(CELL_PIXELS \div 2), CELL_PIXELS + 5, GRID_SIZE[2] * CELL_PIXELS}

\* GridCoord rounding the quotient up instead of truncating.
GridCoordCeil(v, cell_size) == DivI16(F32AsI16(v) + cell_size - 1, cell_size)

\* The grid coordinate mouse_button_down_event computes from a pixel coordinate.
GridCoord(v, cell_size) == DivI16(F32AsI16(v), cell_size)

\* NewCell with the coordinates swapped.
NewCellSwapped(grid_x, grid_y) == Cell(GridPosition(grid_y, grid_x), FALSE)

\* The cell mouse_button_down_event constructs: new_cell_pos, then cell.
NewCell(grid_x, grid_y) == Cell(GridPosition(grid_x, grid_y), FALSE)

\* mouse_button_down_event that only ever brings a cell to life (no toggle).
mouse_button_down_event_set(x, y) ==
    LET grid_x == GridCoord(x, GRID_CELL_SIZE[1])
        grid_y == GridCoord(y, GRID_CELL_SIZE[2])
        cell == NewCell(grid_x, grid_y)
    IN /\ ~panicked
       /\ event' = Ev("click", x, y, clock, {})
       /\ prev' = Snapshot
       /\ IF InBounds(grid_x, GRID_SIZE[1]) /\ InBounds(grid_y, GRID_SIZE[2])
          THEN /\ board' = [board EXCEPT ![grid_x][grid_y] = cell]
               /\ UNCHANGED panicked
          ELSE /\ panicked' = TRUE
               /\ UNCHANGED board
       /\ UNCHANGED <<last_update, run, reset_board, clock>>

\* GameState::mouse_button_down_event
mouse_button_down_event(x, y) ==
    LET grid_x == GridCoord(x, GRID_CELL_SIZE[1])
        grid_y == GridCoord(y, GRID_CELL_SIZE[2])
        cell == NewCell(grid_x, grid_y)
    IN /\ ~panicked
       /\ event' = Ev("click", x, y, clock, {})
       /\ prev' = Snapshot
       /\ IF InBounds(grid_x, GRID_SIZE[1]) /\ InBounds(grid_y, GRID_SIZE[2])
          THEN /\ board' = IF board[grid_x][grid_y].dead
                           THEN [board EXCEPT ![grid_x][grid_y] = cell]
                           ELSE [board EXCEPT ![grid_x][grid_y].dead = TRUE]
               /\ UNCHANGED panicked
          ELSE \* index out of bounds: the handler panics
               /\ panicked' = TRUE
               /\ UNCHANGED board
       /\ UNCHANGED <<last_update, run, reset_board, clock>>

Next ==
    \/ Elapse
    \/ update
    \/ draw
    \/ \E keycode \in KeyCodes : key_down_event(keycode)
    \/ \E x \in ClickXs, y \in ClickYs : mouse_button_down_event(x, y)

Spec == Init /\ [][Next]_vars

(* ---------------- the transition rule on arbitrary boards -------------- *)
\* Every board of the grid: each slot holds its own position, any dead flag.
AllBoards ==
    {[x \in Xs |-> [y \in Ys |-> Cell(GridPosition(x, y), <<x, y>> \notin alive)]] :
        alive \in SUBSET (Xs \X Ys)}

\* A running game with an arbitrary board, due for an update.
InitStep ==
    /\ board \in AllBoards
    /\ last_update = 0
    /\ run = TRUE
    /\ reset_board = FALSE
    /\ clock = MILLIS_PER_UPDATE
    /\ panicked = FALSE
    /\ event = Ev("new", 0, 0, 0, {})
    /\ prev = [board |-> board, last_update |-> 0, run |-> TRUE, reset_board |-> FALSE]

NextStep == update

SpecStep == InitStep /\ [][NextStep]_vars

(* ------------------------------- seeding ------------------------------- *)
\* What rng.gen_range(0, GRID_SIZE.0), rng.gen_range(0, GRID_SIZE.1) can return.
RandomPositions == {GridPosition(x, y) : x \in Xs, y \in Ys}

\* The draws of one call of generate_board(cell_count): cell_count positions,
\* drawn independently, repeats allowed.
RandomDraws(cell_count) == [1 .. cell_count -> RandomPositions]

\* The construction event of GameState::new(cell_count) with its draws.
NewEv(random_positions) ==
    [kind |-> "new", x |-> 0, y |-> 0, now |-> 0, rects |-> {}, draws |-> random_positions]

\* GameState::new(cell_count) for any cell_count up to MaxCellCount.
InitSeed ==
    \E cell_count \in 0 .. MaxCellCount :
        \E random_positions \in RandomDraws(cell_count) :
            /\ board = generate_board(random_positions)
            /\ last_update = 0
            /\ run = FALSE
            /\ reset_board = FALSE
            /\ clock = 0
            /\ panicked = FALSE
            /\ event = NewEv(random_positions)
            /\ prev = [board |-> board, last_update |-> 0,
                       run |-> FALSE, reset_board |-> FALSE]

\* The seeded board is looked at (time passes, it is drawn) but not yet played.
NextSeed == Elapse \/ draw

SpecSeed == InitSeed /\ [][NextSeed]_vars

(* ------------------------------ properties ----------------------------- *)
\* The live cells among the in-range positions (x+dx, y+dy), (dx,dy) # (0,0).
AdjacentLive(B, x, y) ==
    Cardinality({d \in (-1 .. 1) \X (-1 .. 1) :
                    /\ d # <<0, 0>>
                    /\ x + d[1] \in Xs
                    /\ y + d[2] \in Ys
                    /\ ~B[x + d[1]][y + d[2]].dead})

\* The last event was an update that passed the gate.
EligibleTick == event.kind = "update" /\ event.now - prev.last_update >= MILLIS_PER_UPDATE

\* The last event was an update that did not pass the gate.
GatedTick == event.kind = "update" /\ event.now - prev.last_update < MILLIS_PER_UPDATE

\* The last event was one step: an eligible tick, running, no reset pending.
StepTick == EligibleTick /\ prev.run /\ ~prev.reset_board

\* C1 (birth rule): after one step, a cell that was dead before it is alive
\* if and only if it had exactly 3 live neighbours on the board before the step.
C1_BirthRule ==
    StepTick =>
        \A x \in Xs, y \in Ys :
            prev.board[x][y].dead =>
                ((~board[x][y].dead) <=> (AdjacentLive(prev.board, x, y) = 3))

\* A step gave birth to one cell and left another dead cell, which had live
\* neighbours but not 3 of them, dead.
C1_Witness ==
    /\ StepTick
    /\ \E x \in Xs, y \in Ys :
          prev.board[x][y].dead /\ ~board[x][y].dead /\ AdjacentLive(prev.board, x, y) = 3
    /\ \E x \in Xs, y \in Ys :
          /\ prev.board[x][y].dead /\ board[x][y].dead
          /\ AdjacentLive(prev.board, x, y) \in {2, 4}

\* C2 (survival rule): after one step, a cell that was alive before it is
\* alive if it had 2 or 3 live neighbours before the step and dead if it had
\* 0, 1, or 4 or more.
C2_SurvivalRule ==
    StepTick =>
        \A x \in Xs, y \in Ys :
            ~prev.board[x][y].dead =>
                LET n == AdjacentLive(prev.board, x, y)
                IN /\ (n = 2 \/ n = 3) => ~board[x][y].dead
                   /\ (n = 0 \/ n = 1 \/ n >= 4) => board[x][y].dead

\* A step kept a live cell with 2 or 3 neighbours, and killed one with exactly
\* 4 and one with fewer than 2.
C2_Witness ==
    /\ StepTick
    /\ \E x \in Xs, y \in Ys :
          ~prev.board[x][y].dead /\ ~board[x][y].dead
          /\ AdjacentLive(prev.board, x, y) \in {2, 3}
    /\ \E x \in Xs, y \in Ys :
          ~prev.board[x][y].dead /\ board[x][y].dead /\ AdjacentLive(prev.board, x, y) = 4
    /\ \E x \in Xs, y \in Ys :
          ~prev.board[x][y].dead /\ board[x][y].dead /\ AdjacentLive(prev.board, x, y) < 2

\* The number of in-range positions adjacent to (x, y).
AdjacentSlots(x, y) ==
    Cardinality({d \in (-1 .. 1) \X (-1 .. 1) :
                    d # <<0, 0>> /\ x + d[1] \in Xs /\ y + d[2] \in Ys})

\* C3 (neighbour count): for the board B an update counts in and every
\* position p, neighbor_count(B, p) is the number of live cells among the
\* in-range adjacent positions of p, so at most 8, at most the number of
\* adjacent slots p has (3 at a corner, 5 on an edge), and never the cell itself.
C3_NeighborCountExact ==
    \A x \in Xs, y \in Ys :
        LET n == neighbor_count(prev.board, prev.board[x][y])
        IN /\ n = AdjacentLive(prev.board, x, y)
           /\ n <= 8
           /\ n <= AdjacentSlots(x, y)

\* An update counted neighbours on a full board: 3 at a corner, 5 on an edge
\* and 8 in the interior, the cell itself not counted.
C3_Witness ==
    /\ StepTick
    /\ \A x \in Xs, y \in Ys : ~prev.board[x][y].dead
    /\ neighbor_count(prev.board, prev.board[0][0]) = 3
    /\ neighbor_count(prev.board, prev.board[GRID_SIZE[1] - 1][GRID_SIZE[2] - 1]) = 3
    /\ neighbor_count(prev.board, prev.board[0][1]) = 5
    /\ neighbor_count(prev.board, prev.board[1][1]) = 8

\* All cells updated at once from the board B.
Simultaneous(B) ==
    [x \in Xs |-> [y \in Ys |->
        [B[x][y] EXCEPT !.dead = NextDead(B[x][y], neighbor_count(B, B[x][y]))]]]

\* C4 (snapshot): the cell-by-cell in-place scan of a step leaves exactly the
\* board a simultaneous update of all cells from the pre-tick board gives.
C4_SnapshotStep == StepTick => board = Simultaneous(prev.board)

\* A step changed a cell that is scanned before one of its neighbours: the
\* later cell's count would differ if it read the board being written.
C4_Witness ==
    /\ StepTick
    /\ \E x \in Xs, y \in Ys :
          /\ board[x][y].dead # prev.board[x][y].dead
          /\ \E x2 \in Xs, y2 \in Ys :
                /\ x * GRID_SIZE[2] + y < x2 * GRID_SIZE[2] + y2
                /\ x2 - x \in -1 .. 1
                /\ y2 - y \in -1 .. 1
                /\ neighbor_count(board, prev.board[x2][y2])
                     # neighbor_count(prev.board, prev.board[x2][y2])

\* Some cell of B is alive.
SomeAlive(B) == \E x \in Xs, y \in Ys : ~B[x][y].dead

\* Every cell of B is dead.
AllDead(B) == \A x \in Xs, y \in Ys : B[x][y].dead

\* The last event left board, run, reset_board and last_update as it found them.
FieldsUnchanged ==
    /\ board = prev.board
    /\ run = prev.run
    /\ reset_board = prev.reset_board
    /\ last_update = prev.last_update

\* The last event was a click whose pixel lies outside the rendered grid.
OutsideClick ==
    /\ event.kind = "click"
    /\ \/ event.x < 0
       \/ event.x >= GRID_SIZE[1] * GRID_CELL_SIZE[1]
       \/ event.y < 0
       \/ event.y >= GRID_SIZE[2] * GRID_CELL_SIZE[2]

\* C5 (click outside the grid): a click at a pixel outside the rendered grid
\* changes nothing (board, run, reset_board, last_update) and does not crash,
\* so that a tick can still be processed after it.
C5_OutsideClickNoOp == OutsideClick => (FieldsUnchanged /\ ~panicked /\ ENABLED update)

\* C6 (tick gate): a tick arriving less than MILLIS_PER_UPDATE after
\* last_update changes nothing, also with a reset pending or the game running.
C6_GatedTickNoOp == GatedTick => (FieldsUnchanged /\ ~panicked)

\* A gated tick found a reset pending, the game running and live cells.
C6_Witness ==
    /\ GatedTick
    /\ prev.reset_board
    /\ prev.run
    /\ SomeAlive(prev.board)
    /\ event.now > prev.last_update

\* The board an eligible tick is to leave: cleared if a reset was pending,
\* then advanced one generation if running.
ExpectedTickBoard ==
    LET b1 == IF prev.reset_board
              THEN [x \in Xs |-> [y \in Ys |-> [prev.board[x][y] EXCEPT !.dead = TRUE]]]
              ELSE prev.board
    IN IF prev.run THEN Simultaneous(b1) ELSE b1

\* C7 as stated: an eligible tick applies a pending reset, then a step if
\* running, never changes run, and sets last_update to the `now` its gate used.
C7_LastUpdateIsGateNow ==
    EligibleTick =>
        /\ board = ExpectedTickBoard
        /\ ~reset_board
        /\ run = prev.run
        /\ last_update = event.now

\* C7 (eligible tick) as amended: an eligible tick applies a pending reset,
\* then a step if running, never changes run, and in every case sets
\* last_update to a clock reading taken after the work, which is at or after
\* the reading its gate used.
C7_EligibleTick ==
    EligibleTick =>
        /\ board = ExpectedTickBoard
        /\ ~reset_board
        /\ run = prev.run
        /\ event.now <= last_update
        /\ last_update <= clock
        /\ ~panicked

\* An eligible tick with a reset pending, running, on a board with live cells
\* in the last column, whose closing clock reading is later than the gate's.
C7_Witness ==
    /\ EligibleTick
    /\ prev.reset_board
    /\ prev.run
    /\ \E y \in Ys : ~prev.board[GRID_SIZE[1] - 1][y].dead
    /\ last_update > event.now

\* C8 (reset key): the reset key sets reset_board and leaves the board, run
\* and last_update alone; reset_board goes from true to false only in an
\* eligible tick.
C8_ResetKeyStages ==
    /\ event.kind = "Back" =>
          /\ reset_board
          /\ board = prev.board
          /\ run = prev.run
          /\ last_update = prev.last_update
    /\ (prev.reset_board /\ ~reset_board) => EligibleTick

\* The reset key was pressed with no reset pending, on a board with live cells.
C8_Witness ==
    /\ event.kind = "Back"
    /\ ~prev.reset_board
    /\ reset_board
    /\ SomeAlive(board)

\* C9 (deferred reset): while a reset is pending, every event but an eligible
\* tick leaves it pending, a gated tick also leaves the board unchanged, and
\* the eligible tick leaves the board all dead with no reset pending, running
\* or not.
C9_DeferredReset ==
    prev.reset_board =>
        /\ ~EligibleTick => reset_board
        /\ GatedTick => board = prev.board
        /\ EligibleTick => (AllDead(board) /\ ~reset_board)

\* An eligible tick found a reset pending, the game running and a board on
\* which a step alone would have left live cells.
C9_Witness ==
    /\ EligibleTick
    /\ prev.reset_board
    /\ prev.run
    /\ SomeAlive(Simultaneous(prev.board))
    /\ AllDead(board)

\* C10 (board invariant): the board always has GRID_SIZE.0 columns of
\* GRID_SIZE.1 cells and every cell carries the position of its slot.
C10_PositionsMatchSlots ==
    /\ DOMAIN board = Xs
    /\ \A x \in Xs :
          /\ DOMAIN board[x] = Ys
          /\ \A y \in Ys : board[x][y].position = [x |-> x, y |-> y]

\* A click replaced a dead cell, in a slot whose coordinates differ, by a
\* newly constructed live cell.
C10_Witness ==
    /\ event.kind = "click"
    /\ \E x \in Xs, y \in Ys :
          /\ x # y
          /\ prev.board[x][y].dead
          /\ ~board[x][y].dead

\* The last event was a click that indexed the board in range (it toggled).
ToggledClick == event.kind = "click" /\ ~panicked

\* Two pixel positions map to the same grid cell.
SameCell(x1, y1, x2, y2) ==
    /\ GridCoord(x1, GRID_CELL_SIZE[1]) = GridCoord(x2, GRID_CELL_SIZE[1])
    /\ GridCoord(y1, GRID_CELL_SIZE[2]) = GridCoord(y2, GRID_CELL_SIZE[2])

\* C11 (toggle is self-inverse): after a click that toggled a cell, a second
\* click mapping to the same cell, with no tick in between, can only give back
\* the board as it was before the first click, dead flags and positions alike.
C11_ToggleSelfInverse ==
    ToggledClick =>
        /\ board # prev.board
        /\ \A x \in ClickXs, y \in ClickYs :
              SameCell(x, y, event.x, event.y) =>
                  /\ ENABLED mouse_button_down_event(x, y)
                  /\ ~ENABLED (mouse_button_down_event(x, y) /\ board' # prev.board)

\* A click killed a live cell (the second click has to rebuild the cell), in a
\* slot whose coordinates differ, while other cells are alive.
C11_Witness ==
    /\ ToggledClick
    /\ \E x \in Xs, y \in Ys :
          /\ x # y
          /\ ~prev.board[x][y].dead
          /\ board[x][y].dead
    /\ SomeAlive(board)

\* C12 (empty board is a fixed point): no event but a click brings a cell of
\* an all-dead board to life, however many steps run on it.
C12_EmptyFixedPoint ==
    (AllDead(prev.board) /\ event.kind # "click") => AllDead(board)

\* A step ran on an all-dead board, after an earlier tick had already run.
C12_Witness ==
    /\ StepTick
    /\ AllDead(prev.board)
    /\ AllDead(board)
    /\ prev.last_update >= MILLIS_PER_UPDATE

\* The last event was a press of the run/pause key.
RunKey == event.kind = "Space"

\* C13 (run key): run and reset_board start false; the run key flips run and
\* leaves the board, reset_board and last_update alone, and a second press
\* right after it restores the state before the first.
C13_RunKeyFlips ==
    /\ event.kind = "new" => (~run /\ ~reset_board)
    /\ RunKey =>
          /\ run = ~prev.run
          /\ board = prev.board
          /\ reset_board = prev.reset_board
          /\ last_update = prev.last_update
          /\ ENABLED key_down_event("Space")
          /\ ~ENABLED (/\ key_down_event("Space")
                       /\ ~(/\ run' = prev.run
                            /\ board' = prev.board
                            /\ reset_board' = prev.reset_board
                            /\ last_update' = prev.last_update))

\* The run key paused a running game on a board with live cells.
C13_Witness ==
    /\ RunKey
    /\ prev.run
    /\ ~run
    /\ SomeAlive(board)

\* The last event was a press of a key that is no command.
OtherKey == event.kind \in KeyCodes \ {"Space", "Back"}

\* C14 (unrecognized key): a key other than the run key and the reset key
\* changes nothing (board, run, reset_board, last_update) and raises no error.
C14_OtherKeyNoOp == OtherKey => (FieldsUnchanged /\ ~panicked)

\* Another key was pressed while the game ran with no reset pending, on a
\* board with live cells.
C14_Witness ==
    /\ OtherKey
    /\ prev.run
    /\ ~prev.reset_board
    /\ SomeAlive(board)

\* The rectangle a live cell at slot (x, y) is to be painted as.
CellRect(x, y) ==
    [x |-> x * CELL_PIXELS, y |-> y * CELL_PIXELS, w |-> CELL_PIXELS, h |-> CELL_PIXELS]

\* C15 (draw): a draw paints exactly the cells that are alive, each as the
\* rectangle of its slot, no dead cell and nothing else, and changes no field.
C15_DrawLiveCells ==
    event.kind = "draw" =>
        /\ \A x \in Xs, y \in Ys : (CellRect(x, y) \in event.rects) <=> ~board[x][y].dead
        /\ event.rects \subseteq {CellRect(x, y) : x \in Xs, y \in Ys}
        /\ FieldsUnchanged
        /\ ~panicked

\* A draw of a board with a live and a dead cell in mirrored slots.
C15_Witness ==
    /\ event.kind = "draw"
    /\ \E x \in Xs, y \in Ys :
          /\ x # y
          /\ ~board[x][y].dead
          /\ board[y][x].dead
          /\ CellRect(x, y) \in event.rects

\* The last event was a click at a pixel inside the rendered grid.
InsideClick ==
    /\ event.kind = "click"
    /\ event.x >= 0
    /\ event.x < GRID_SIZE[1] * GRID_CELL_SIZE[1]
    /\ event.y >= 0
    /\ event.y < GRID_SIZE[2] * GRID_CELL_SIZE[2]

\* C16 (click inside the grid): a click at a pixel inside the rendered grid
\* flips the cell at (x div cell width, y div cell height) and changes no
\* other cell, nor run, reset_board or last_update, whatever the gate and the
\* run flag say.
C16_InsideClickFlipsOne ==
    InsideClick =>
        /\ \A x \in Xs, y \in Ys :
              (board[x][y].dead # prev.board[x][y].dead)
                  <=> (x = event.x \div CELL_PIXELS /\ y = event.y \div CELL_PIXELS)
        /\ \A x \in Xs, y \in Ys : board[x][y].position = prev.board[x][y].position
        /\ run = prev.run
        /\ reset_board = prev.reset_board
        /\ last_update = prev.last_update
        /\ ~panicked

\* A click inside the grid flipped a cell while the game was running and the
\* tick gate was closed.
C16_Witness ==
    /\ InsideClick
    /\ prev.run
    /\ event.now - prev.last_update < MILLIS_PER_UPDATE
    /\ prev.last_update > 0
    /\ board # prev.board

\* The slots of B that hold a live cell.
LiveSet(B) == {p \in Xs \X Ys : ~B[p[1]][p[2]].dead}

\* The blinker in its two phases: a line along x, and a line along y.
BlinkerAcross == {<<0, 1>>, <<1, 1>>, <<2, 1>>}
BlinkerDown == {<<1, 0>>, <<1, 1>>, <<1, 2>>}

\* C17 (blinker): a step of the board whose live cells are exactly (0,1),
\* (1,1),(2,1) leaves exactly (1,0),(1,1),(1,2) alive, and a step of that
\* board leaves exactly (0,1),(1,1),(2,1) alive again (period 2).
C17_Blinker ==
    StepTick =>
        /\ LiveSet(prev.board) = BlinkerAcross => LiveSet(board) = BlinkerDown
        /\ LiveSet(prev.board) = BlinkerDown => LiveSet(board) = BlinkerAcross

\* The second step of the blinker has run: it found the line along y, left
\* the line along x, and a first tick had run before it.
C17_Witness ==
    /\ StepTick
    /\ LiveSet(prev.board) = BlinkerDown
    /\ LiveSet(board) = BlinkerAcross
    /\ prev.last_update >= MILLIS_PER_UPDATE

\* The last event was a click whose grid position is inside the grid.
InRangeClick ==
    /\ event.kind = "click"
    /\ InBounds(GridCoord(event.x, GRID_CELL_SIZE[1]), GRID_SIZE[1])
    /\ InBounds(GridCoord(event.y, GRID_CELL_SIZE[2]), GRID_SIZE[2])

\* C18 (pause holds the board): with run false and no reset pending, a tick,
\* eligible or not, changes no cell, and only a click whose grid position is
\* in range changes the board.
C18_PauseHoldsBoard ==
    (~prev.run /\ ~prev.reset_board) =>
        /\ event.kind = "update" => board = prev.board
        /\ board # prev.board => InRangeClick

\* An eligible tick found the game paused, no reset pending, and a board that
\* a step would have changed.
C18_Witness ==
    /\ EligibleTick
    /\ ~prev.run
    /\ ~prev.reset_board
    /\ Simultaneous(prev.board) # prev.board
    /\ board = prev.board

\* The last event was a tick that applied a reset or a step.
ActingTick ==
    /\ event.kind = "update"
    /\ \/ board # prev.board
       \/ reset_board # prev.reset_board
       \/ last_update # prev.last_update

\* C19 (fixed-rate gate): last_update never decreases and never runs ahead of
\* the clock, and a tick that applies a reset or a step comes at least
\* MILLIS_PER_UPDATE after the last_update the previous one stored, and stores
\* one at least MILLIS_PER_UPDATE later.
C19_FixedRate ==
    /\ last_update >= prev.last_update
    /\ last_update <= clock
    /\ ActingTick =>
          /\ event.now - prev.last_update >= MILLIS_PER_UPDATE
          /\ last_update - prev.last_update >= MILLIS_PER_UPDATE

\* A second generation was computed: a step changed the board after an
\* earlier eligible tick had stored its last_update.
C19_Witness ==
    /\ StepTick
    /\ board # prev.board
    /\ prev.last_update >= MILLIS_PER_UPDATE
    /\ last_update - prev.last_update >= MILLIS_PER_UPDATE

\* The state is a freshly seeded one: nothing but time has passed since new.
Seeded == event.kind = "new"

\* C20 (seed): the seeded board has exactly the drawn positions alive and
\* every other cell dead, so at most cell_count live cells (fewer when draws
\* repeat), at least one when cell_count >= 1, and none when cell_count = 0,
\* which is the board main starts with.
C20_SeedMarksDraws ==
    Seeded =>
        LET drawn == {<<event.draws[i].x, event.draws[i].y>> : i \in 1 .. Len(event.draws)}
            cell_count == Len(event.draws)
        IN /\ LiveSet(board) = drawn
           /\ Cardinality(LiveSet(board)) <= cell_count
           /\ cell_count >= 1 => Cardinality(LiveSet(board)) >= 1
           /\ cell_count = 0 => (AllDead(board) /\ board = generate_board(<<>>))
           /\ \A x \in Xs, y \in Ys : board[x][y].position = [x |-> x, y |-> y]

\* A seed with a repeated draw: two draws, one live cell.
C20_Witness ==
    /\ Seeded
    /\ Len(event.draws) = 2
    /\ event.draws[1] = event.draws[2]
    /\ Cardinality(LiveSet(board)) = 1

====
